---- MODULE Spec2Model ----
(***************************************************************************)
(* A model of scripts/compare_predictions.py: one evaluation run of main() *)
(* over a ground-truth file (large.json) and a predictions file.           *)
(*                                                                         *)
(* A path is a sequence of its segments (<<"images","x.png">> is           *)
(* images/x.png), so that a string without a separator is a sequence of    *)
(* length one and string equality is sequence equality.                    *)
(*                                                                         *)
(* A JSON value is a record [t, n, s, l]: its Python type, and its number, *)
(* string or list content.  A Python dict is a function from its keys.     *)
(* The value None and "no report" are the empty sequence; a value that is  *)
(* there is a sequence of length one.                                      *)
(***************************************************************************)
EXTENDS Integers, Sequences, FiniteSets, TLC

\* Bounds of the model: the lengths of the two input collections.
MaxGT == 2
MaxPred == 2

(***************************************************************************)
(* JSON values as json.load produces them                                  *)
(***************************************************************************)
JBool(b) == [t |-> "bool", n |-> IF b THEN 1 ELSE 0, s |-> "", l |-> <<>>]
JNum(k) == [t |-> "num", n |-> k, s |-> "", l |-> <<>>]
JStr(x) == [t |-> "str", n |-> 0, s |-> x, l |-> <<>>]
JNull == [t |-> "null", n |-> 0, s |-> "", l |-> <<>>]
JList(q) == [t |-> "list", n |-> 0, s |-> "", l |-> q]

\* Python's  b == v  for a bool b: True == 1 and False == 0 hold, and a bool
\* equals no string, list or None.
PyEqBool(b, v) == v.t \in {"bool", "num"} /\ v.n = (IF b THEN 1 ELSE 0)

\* Python's truth value of a JSON value.
PyTruthy(v) ==
    CASE v.t \in {"bool", "num"} -> v.n # 0
      [] v.t = "str" -> v.s # ""
      [] v.t = "list" -> v.l # <<>>
      [] OTHER -> FALSE

\* dict without a key, and an empty dict.
Without(d, k) == [f \in (DOMAIN d) \ {k} |-> d[f]]
EmptyDict == [f \in {} |-> JNull]

\* d[k] = v on a dict: the key is added or its value replaced.
PutFirst(d, k, v) ==
    IF k \in DOMAIN d THEN d
    ELSE [x \in (DOMAIN d) \cup {k} |-> IF x = k THEN v ELSE d[x]]
Put(d, k, v) == [x \in (DOMAIN d) \cup {k} |-> IF x = k THEN v ELSE d[x]]

Last(q) == q[Len(q)]

(***************************************************************************)
(* The inputs: records of large.json and of the predictions file           *)
(***************************************************************************)
\* Records as gen-prompts.py writes them (id, image, label), two of them
\* with the hazards the annotator adds.
GTItems ==
    { [id |-> "x", image |-> <<"images", "x.png">>, label |-> "awake/crying",
       hazards |-> JList(<<"Cord">>)],
      [id |-> "x", image |-> <<"images", "x.png">>, label |-> "asleep"],
      [id |-> "y", image |-> <<"y.png">>, label |-> "awake/crying"],
      [id |-> "y", image |-> <<"y.png">>, label |-> "asleep",
       hazards |-> JList(<<>>)],
      [id |-> "y", image |-> <<"y.png">>, label |-> "not-present"] }

\* The record a well-formed prediction text decodes to.
Complete ==
    [baby_present |-> JBool(TRUE), crying |-> JBool(TRUE),
     sleeping |-> JBool(FALSE), severity |-> JNum(7),
     hazards |-> JList(<<"cord">>)]

\* A prediction payload: a text or an already structured record.  A text is
\* represented by what json.loads makes of it after the two clean-up
\* substitutions: decodes is FALSE when it raises JSONDecodeError.
\* A payload that is neither (JSON null) is the third kind.
Text(d) == [kind |-> "text", decodes |-> TRUE, value |-> d]
Garbage == [kind |-> "text", decodes |-> FALSE, value |-> EmptyDict]
Structured(d) == [kind |-> "record", decodes |-> FALSE, value |-> d]
NullPayload == [kind |-> "null", decodes |-> FALSE, value |-> EmptyDict]

DefectivePayloads ==
    { Text(Without(Complete, "crying")),
      Text([Complete EXCEPT !["crying"] = JNull]),
      Text([Complete EXCEPT !["severity"] = JStr("5")]),
      Text([Complete EXCEPT !["severity"] = JStr("high")]),
      Text(Without(Complete, "severity")),
      Text(Without(Complete, "hazards")),
      Text(EmptyDict),
      Garbage,
      Structured(Complete),
      NullPayload }

PredItems ==
    { [filename |-> f, prediction |-> Text(Complete)] :
          f \in {<<"x.png">>, <<"y.png">>, <<"out", "x.png">>} }
    \cup { [filename |-> <<"x.png">>, prediction |-> p] : p \in DefectivePayloads }

RECURSIVE SeqsUpTo(_, _)
SeqsUpTo(S, n) ==
    IF n = 0 THEN {<<>>}
    ELSE LET shorter == SeqsUpTo(S, n - 1)
         IN  shorter \cup {Append(q, x) : q \in shorter, x \in S}

(***************************************************************************)
(* State                                                                   *)
(***************************************************************************)
VARIABLES
    large_data,          \* content of the ground-truth file
    predictions_data,    \* content of the predictions file
    pc,                  \* position of the run in main()/compare_predictions()
    exc,                 \* the exception that ended compare_predictions, or "none"
    large_map,           \* dict: file name -> ground-truth record
    prediction_map,      \* dict: filename -> parsed prediction
    parse_errors,        \* number of "Error parsing prediction" lines printed
    matching_keys,       \* set of keys in both maps
    todo,                \* keys the comparison loop has not visited yet
    total_matches,
    correct,             \* category -> baby_present_correct, crying_correct, ...
    incorrect,           \* category -> incorrect_baby_present, ...
    severity_matches,
    severity_stats,      \* the printed severity statistics
    hazard_stats,        \* the printed hazard totals
    error_analysis,      \* category -> printed false negatives and positives
    results,             \* the value compare_predictions returned, if any
    output_file,         \* content of comparison_results.json, if written
    missing,             \* the input paths that do not resolve to a file
    exit_status          \* the exit status of the command, once it has ended

vars == <<large_data, predictions_data, pc, exc, large_map, prediction_map,
          parse_errors, matching_keys, todo, total_matches, correct, incorrect,
          severity_matches, severity_stats, hazard_stats, error_analysis,
          results, output_file, missing, exit_status>>

\* The paths main() names.
large_json_path == "large/large.json"
predictions_json_path == "large/model_predictions_1-1.json"
OutputOverPredictions == predictions_json_path
OutputPath == "comparison_results.json"

Categories == {"baby_present", "crying", "sleeping"}

\* The state of parse_prediction run on its own over a text given character
\* by character.
VARIABLES
    intended,            \* the valid JSON text the given text derives from
    given,               \* the text parse_prediction is called with
    prediction_text,     \* the local prediction_str, as the clean-up rewrites it
    parse_pc,            \* position in parse_prediction
    returned,            \* what parse_prediction returned: None or a value
    error_printed        \* whether the two "Error parsing" lines were printed

parser_vars == <<intended, given, prediction_text, parse_pc, returned, error_printed>>

ParserIdle ==
    /\ intended = <<>>
    /\ given = <<>>
    /\ prediction_text = <<>>
    /\ parse_pc = "idle"
    /\ returned = <<>>
    /\ error_printed = FALSE

\* The state of find_missing_entries (find_missing_images.py).
VARIABLES
    json_file,           \* the entries of the JSON file, one per line
    images_folder,       \* the items of the images folder
    find_pc,             \* position in find_missing_entries
    all_entries,
    folder_image_names,
    json_image_names,
    missing_image_names,
    missing_entries,     \* the list the function builds and returns
    find_exc             \* the exception that ended the function, or "none"

find_vars == <<json_file, images_folder, find_pc, all_entries, folder_image_names,
               json_image_names, missing_image_names, missing_entries, find_exc>>

FindIdle ==
    /\ json_file = <<>>
    /\ images_folder = {}
    /\ find_pc = "idle"
    /\ all_entries = <<>>
    /\ folder_image_names = {}
    /\ json_image_names = {}
    /\ missing_image_names = {}
    /\ missing_entries = <<>>
    /\ find_exc = "none"

\* The state of the image generator's main loop (gen-gemini-images.py).
VARIABLES
    entries,             \* the entries read from the JSON file, shuffled
    entry_index,         \* i + 1 of the for loop
    retry_count,
    images_dir,          \* the files of the images directory, oldest first
    failed_log,          \* the ids written to the failed-prompts log, in order
    attempts,            \* id -> how many times the loop body was entered
    saved,               \* the ids whose loop ended with the rename and break
    gen_pc               \* position in main

gen_vars == <<entries, entry_index, retry_count, images_dir, failed_log,
              attempts, saved, gen_pc>>

\* Bound of the model: the number of entries of a run.
MaxPrompts == 2
EntryIds == {"synth_1", "synth_2", "synth_3"}

GenIdle ==
    /\ entries = <<>>
    /\ entry_index = 1
    /\ retry_count = 0
    /\ images_dir = <<>>
    /\ failed_log = <<>>
    /\ attempts = [id \in EntryIds |-> 0]
    /\ saved = {}
    /\ gen_pc = "idle"

\* The state of the annotator (annotate_images.py) and of its JSON file.
VARIABLES
    large_json,          \* the records in the file large.json
    loaded_data,         \* the local data of main: the records in memory
    ann_index,           \* i + 1 of the for loop
    ann_pc,              \* position in main
    answers,             \* the answers given for the current record so far
    restarts,            \* how many times the annotator was started again
    completed            \* index -> the record as its annotation completed it

annotate_vars == <<large_json, loaded_data, ann_index, ann_pc, answers, restarts,
                   completed>>

AnnotateIdle ==
    /\ large_json = <<>>
    /\ loaded_data = <<>>
    /\ ann_index = 1
    /\ ann_pc = "idle"
    /\ answers = EmptyDict
    /\ restarts = 0
    /\ completed = EmptyDict

\* What an evaluation run leaves alone: the state of the other scripts.
outside_compare == <<parser_vars, find_vars, gen_vars, annotate_vars>>

Init ==
    /\ ParserIdle
    /\ FindIdle
    /\ GenIdle
    /\ AnnotateIdle
    /\ missing \in SUBSET {large_json_path, predictions_json_path}
    /\ large_data \in IF large_json_path \in missing THEN {<<>>}
                      ELSE SeqsUpTo(GTItems, MaxGT)
    /\ predictions_data \in IF predictions_json_path \in missing THEN {<<>>}
                            ELSE SeqsUpTo(PredItems, MaxPred)
    /\ pc = "index_large"
    /\ exc = "none"
    /\ large_map = EmptyDict
    /\ prediction_map = EmptyDict
    /\ parse_errors = 0
    /\ matching_keys = {}
    /\ todo = {}
    /\ total_matches = 0
    /\ correct = [c \in Categories |-> 0]
    /\ incorrect = [c \in Categories |-> <<>>]
    /\ severity_matches = <<>>
    /\ severity_stats = <<>>
    /\ hazard_stats = <<>>
    /\ error_analysis = [c \in Categories |-> [false_negatives |-> 0, false_positives |-> 0]]
    /\ results = <<>>
    /\ output_file = <<>>
    /\ exit_status = <<>>

(***************************************************************************)
(* Pure functions of the script                                            *)
(***************************************************************************)
\* Path(item['image']).name : the final path component, a string.
PathName(path) == <<Last(path)>>

\* parse_prediction.  str.replace on a value that is no str raises
\* AttributeError, which parse_prediction does not catch; a JSONDecodeError is
\* caught, printed (two lines) and turned into None.
parse_prediction(prediction_str) ==
    IF prediction_str.kind # "text"
    THEN [raised |-> "AttributeError", result |-> <<>>, printed |-> 0]
    ELSE IF prediction_str.decodes
         THEN [raised |-> "none", result |-> <<prediction_str.value>>, printed |-> 0]
         ELSE [raised |-> "none", result |-> <<>>, printed |-> 1]

\* The truth value of what parse_prediction returned:  if prediction:
Accepted(result) == result # <<>> /\ DOMAIN result[1] # {}

extract_label_info(label) ==
    [baby_present |-> label # "not-present",
     crying |-> label = "awake/crying",
     sleeping |-> label = "asleep",
     awake_peaceful |-> label = "awake/peaceful"]

\* The loop that builds large_map, over the records not yet visited.
RECURSIVE IndexLarge(_, _)
IndexLarge(data, m) ==
    IF data = <<>> THEN m
    ELSE IndexLarge(Tail(data), Put(m, PathName(Head(data).image), Head(data)))

\* The loop that builds prediction_map: the map, the parse errors printed and
\* the exception that ended the loop, if one did.
RECURSIVE ParseAll(_, _, _)
ParseAll(data, m, printed) ==
    IF data = <<>> THEN [map |-> m, printed |-> printed, raised |-> "none"]
    ELSE LET item == Head(data)
             r == parse_prediction(item.prediction)
         IN  IF r.raised # "none"
             THEN [map |-> m, printed |-> printed, raised |-> r.raised]
             ELSE IF Accepted(r.result)
                  THEN ParseAll(Tail(data), Put(m, item.filename, r.result[1]),
                                printed + r.printed)
                  ELSE ParseAll(Tail(data), m, printed + r.printed)

\* The keys the comparison loop reads from a prediction, in the order it
\* reads them; the first one missing raises KeyError.
ComparedFields == {"baby_present", "crying", "sleeping", "severity"}

RECURSIVE SumSeq(_)
SumSeq(q) == IF q = <<>> THEN 0 ELSE Head(q) + SumSeq(Tail(q))

\* statistics.mean and its kin accept ints, floats and bools only.
IsNumber(v) == v.t \in {"num", "bool"}

(***************************************************************************)
(* compare_predictions, step by step                                       *)
(***************************************************************************)
Raise(e) == pc' = "raised" /\ exc' = e

\* The two load_json calls, which raise FileNotFoundError for a path that
\* does not resolve, then large_map = {} and the loop over large_data.
LoadAndIndex ==
    /\ pc = "index_large"
    /\ IF missing # {}
       THEN Raise("FileNotFoundError") /\ UNCHANGED large_map
       ELSE /\ large_map' = IndexLarge(large_data, EmptyDict)
            /\ pc' = "parse_predictions"
            /\ UNCHANGED exc
    /\ UNCHANGED <<large_data, predictions_data, prediction_map,
                   parse_errors, matching_keys, todo, total_matches, correct,
                   incorrect, severity_matches, severity_stats, hazard_stats,
                   error_analysis, results, output_file>>
    /\ UNCHANGED <<missing, exit_status>>
    /\ UNCHANGED outside_compare

\* prediction_map = {} and the loop over predictions_data.
ParsePredictions ==
    /\ pc = "parse_predictions"
    /\ LET r == ParseAll(predictions_data, EmptyDict, 0)
       IN  /\ parse_errors' = r.printed
           /\ IF r.raised # "none"
              THEN Raise(r.raised) /\ UNCHANGED prediction_map
              ELSE pc' = "match" /\ prediction_map' = r.map /\ UNCHANGED exc
    /\ UNCHANGED <<large_data, predictions_data, large_map, matching_keys, todo,
                   total_matches, correct, incorrect, severity_matches,
                   severity_stats, hazard_stats, error_analysis, results,
                   output_file>>
    /\ UNCHANGED <<missing, exit_status>>
    /\ UNCHANGED outside_compare

\* matching_keys, total_matches and the counters set to zero.
Match ==
    /\ pc = "match"
    /\ matching_keys' = (DOMAIN large_map) \cap (DOMAIN prediction_map)
    /\ todo' = matching_keys'
    /\ total_matches' = Cardinality(matching_keys')
    /\ pc' = "compare"
    /\ UNCHANGED <<large_data, predictions_data, exc, large_map, prediction_map,
                   parse_errors, correct, incorrect, severity_matches,
                   severity_stats, hazard_stats, error_analysis, results,
                   output_file>>
    /\ UNCHANGED <<missing, exit_status>>
    /\ UNCHANGED outside_compare

\* One pass of the body of  for key in matching_keys  (a set: the order in
\* which the keys come is not fixed by the program).
Tally(large_item, pred_item, c) ==
    LET expected == extract_label_info(large_item.label)[c]
    IN  IF PyEqBool(expected, pred_item[c])
        THEN [correct |-> correct[c] + 1, incorrect |-> incorrect[c]]
        ELSE [correct |-> correct[c],
              incorrect |-> Append(incorrect[c],
                                   [id |-> large_item.id, expected |-> expected,
                                    predicted |-> pred_item[c]])]

CompareKey(key) ==
    /\ pc = "compare"
    /\ key \in todo
    /\ LET large_item == large_map[key]
           pred_item == prediction_map[key]
       IN  IF ~(ComparedFields \subseteq DOMAIN pred_item)
           THEN /\ Raise("KeyError")
                /\ UNCHANGED <<todo, correct, incorrect, severity_matches>>
           ELSE /\ correct' = [c \in Categories |-> Tally(large_item, pred_item, c).correct]
                /\ incorrect' = [c \in Categories |-> Tally(large_item, pred_item, c).incorrect]
                /\ severity_matches' =
                       Append(severity_matches,
                              [id |-> large_item.id,
                               expected_label |-> large_item.label,
                               predicted_severity |-> pred_item["severity"],
                               predicted_crying |-> pred_item["crying"],
                               predicted_baby_present |-> pred_item["baby_present"]])
                /\ todo' = todo \ {key}
                /\ UNCHANGED <<pc, exc>>
    /\ UNCHANGED <<large_data, predictions_data, large_map, prediction_map,
                   parse_errors, matching_keys, total_matches, severity_stats,
                   hazard_stats, error_analysis, results, output_file>>
    /\ UNCHANGED <<missing, exit_status>>
    /\ UNCHANGED outside_compare

\* The summary lines divide by total_matches.
PrintSummary ==
    /\ pc = "compare"
    /\ todo = {}
    /\ IF total_matches = 0
       THEN Raise("ZeroDivisionError")
       ELSE pc' = "severity" /\ UNCHANGED exc
    /\ UNCHANGED <<large_data, predictions_data, large_map, prediction_map,
                   parse_errors, matching_keys, todo, total_matches, correct,
                   incorrect, severity_matches, severity_stats, hazard_stats,
                   error_analysis, results, output_file>>
    /\ UNCHANGED <<missing, exit_status>>
    /\ UNCHANGED outside_compare

\* Mean, minimum and maximum of the predicted severities (the deviation and
\* the quartiles fail on the same values and are printed only).
SeverityValues == [j \in 1..Len(severity_matches) |-> severity_matches[j].predicted_severity]

SeverityStatistics ==
    /\ pc = "severity"
    /\ IF \E j \in 1..Len(SeverityValues) : ~IsNumber(SeverityValues[j])
       THEN Raise("TypeError") /\ UNCHANGED severity_stats
       ELSE /\ severity_stats' =
                   <<[n |-> Len(SeverityValues),
                      sum |-> SumSeq([j \in 1..Len(SeverityValues) |-> SeverityValues[j].n])]>>
            /\ pc' = "hazards"
            /\ UNCHANGED exc
    /\ UNCHANGED <<large_data, predictions_data, large_map, prediction_map,
                   parse_errors, matching_keys, todo, total_matches, correct,
                   incorrect, severity_matches, hazard_stats, error_analysis,
                   results, output_file>>
    /\ UNCHANGED <<missing, exit_status>>
    /\ UNCHANGED outside_compare

\* Total hazards detected and images with hazards, over the matched
\* predictions; pred_item['hazards'] raises KeyError when the key is missing
\* and len() raises TypeError on a value that has no length.
HasLen(v) == v.t \in {"list", "str"}

HazardStatistics ==
    /\ pc = "hazards"
    /\ IF \E k \in matching_keys : "hazards" \notin DOMAIN prediction_map[k]
       THEN Raise("KeyError") /\ UNCHANGED hazard_stats
       ELSE IF \E k \in matching_keys : ~HasLen(prediction_map[k]["hazards"])
       THEN Raise("TypeError") /\ UNCHANGED hazard_stats
       ELSE /\ hazard_stats' =
                   <<[total_hazards |->
                          LET RECURSIVE Total(_)
                              Total(S) == IF S = {} THEN 0
                                          ELSE LET k == CHOOSE k \in S : TRUE
                                               IN  Len(prediction_map[k]["hazards"].l)
                                                   + Total(S \ {k})
                          IN  Total(matching_keys),
                      images_with_hazards |->
                          Cardinality({k \in matching_keys :
                                          PyTruthy(prediction_map[k]["hazards"])})]>>
            /\ pc' = "analysis"
            /\ UNCHANGED exc
    /\ UNCHANGED <<large_data, predictions_data, large_map, prediction_map,
                   parse_errors, matching_keys, todo, total_matches, correct,
                   incorrect, severity_matches, severity_stats, error_analysis,
                   results, output_file>>
    /\ UNCHANGED <<missing, exit_status>>
    /\ UNCHANGED outside_compare

\* The false negatives and false positives printed per category.
IsFalseNegative(item) == item.expected = TRUE /\ PyEqBool(FALSE, item.predicted)
IsFalsePositive(item) == item.expected = FALSE /\ PyEqBool(TRUE, item.predicted)
FalseNegatives(q) == Cardinality({j \in 1..Len(q) : IsFalseNegative(q[j])})
FalsePositives(q) == Cardinality({j \in 1..Len(q) : IsFalsePositive(q[j])})

ErrorAnalysis ==
    /\ pc = "analysis"
    /\ error_analysis' =
           [c \in Categories |->
               [false_negatives |-> FalseNegatives(incorrect[c]),
                false_positives |-> FalsePositives(incorrect[c])]]
    /\ pc' = "return"
    /\ UNCHANGED <<large_data, predictions_data, exc, large_map, prediction_map,
                   parse_errors, matching_keys, todo, total_matches, correct,
                   incorrect, severity_matches, severity_stats, hazard_stats,
                   results, output_file>>
    /\ UNCHANGED <<missing, exit_status>>
    /\ UNCHANGED outside_compare

\* The returned report.  An accuracy correct / total_matches is kept as the
\* pair of its numerator and denominator.
Report ==
    [total_matches |-> total_matches,
     accuracy |-> [c \in Categories |-> [num |-> correct[c], den |-> total_matches]],
     incorrect_predictions |-> incorrect,
     severity_stats |-> severity_matches]

Return ==
    /\ pc = "return"
    /\ results' = <<Report>>
    /\ pc' = "save"
    /\ UNCHANGED <<large_data, predictions_data, exc, large_map, prediction_map,
                   parse_errors, matching_keys, todo, total_matches, correct,
                   incorrect, severity_matches, severity_stats, hazard_stats,
                   error_analysis, output_file>>
    /\ UNCHANGED <<missing, exit_status>>
    /\ UNCHANGED outside_compare

(***************************************************************************)
(* main                                                                    *)
(***************************************************************************)
\* open(path, 'w') and json.dump(content, f): the file at the path gets the
\* content, every other file is left as it is.
WriteFile(path, content) ==
    /\ large_data' = IF path = large_json_path THEN content ELSE large_data
    /\ predictions_data' =
           IF path = predictions_json_path THEN content ELSE predictions_data
    /\ output_file' = IF path = OutputPath THEN content ELSE output_file

\* json.dump(results, f) into comparison_results.json; main returns and the
\* interpreter exits with status 0.
SaveResults ==
    /\ pc = "save"
    /\ WriteFile(OutputPath, results)
    /\ pc' = "done"
    /\ exit_status' = <<0>>
    /\ UNCHANGED <<exc, large_map, prediction_map,
                   parse_errors, matching_keys, todo, total_matches, correct,
                   incorrect, severity_matches, severity_stats, hazard_stats,
                   error_analysis, results, missing>>
    /\ UNCHANGED outside_compare

\* except FileNotFoundError as e: two lines are printed and main returns.
HandleFileNotFound ==
    /\ pc = "raised"
    /\ exc = "FileNotFoundError"
    /\ pc' = "done"
    /\ exit_status' = <<0>>
    /\ UNCHANGED <<large_data, predictions_data, exc, large_map, prediction_map,
                   parse_errors, matching_keys, todo, total_matches, correct,
                   incorrect, severity_matches, severity_stats, hazard_stats,
                   error_analysis, results, output_file, missing>>
    /\ UNCHANGED outside_compare

\* except Exception as e: the error is printed and main returns.
HandleException ==
    /\ pc = "raised"
    /\ exc # "FileNotFoundError"
    /\ pc' = "done"
    /\ exit_status' = <<0>>
    /\ UNCHANGED <<large_data, predictions_data, exc, large_map, prediction_map,
                   parse_errors, matching_keys, todo, total_matches, correct,
                   incorrect, severity_matches, severity_stats, hazard_stats,
                   error_analysis, results, output_file, missing>>
    /\ UNCHANGED outside_compare

Next ==
    \/ LoadAndIndex
    \/ ParsePredictions
    \/ Match
    \/ \E key \in todo : CompareKey(key)
    \/ PrintSummary
    \/ SeverityStatistics
    \/ HazardStatistics
    \/ ErrorAnalysis
    \/ Return
    \/ SaveResults
    \/ HandleFileNotFound
    \/ HandleException

Spec == Init /\ [][Next]_vars

(***************************************************************************)
(* parse_prediction over a text, character by character                    *)
(***************************************************************************)
\* A text is a sequence of one-character strings over this alphabet.  With
\* it the only JSON literal that can be spelled is false, a number is an
\* integer without sign and without a leading zero, optionally followed by
\* an exponent, and the escapes that can be spelled are \" \\ \f and the
\* invalid \_ .
Alphabet ==
    {"{", "}", "[", "]", ",", ":", "\"", "\\", "_", " ",
     "f", "a", "l", "s", "e", "1", "7"}
Digits == {"1", "7"}
\* The whitespace of the JSON grammar and of the regular expression's \s.
JsonWhitespace == {" ", "\t", "\n", "\r"}
RegexWhitespace == {" ", "\t", "\n", "\r", "\f"}

\* str.replace('\\_', '_'): every backslash-underscore, left to right.
RECURSIVE ReplaceEscapedUnderscore(_)
ReplaceEscapedUnderscore(t) ==
    IF t = <<>> THEN <<>>
    ELSE IF Len(t) >= 2 /\ t[1] = "\\" /\ t[2] = "_"
         THEN <<"_">> \o ReplaceEscapedUnderscore(SubSeq(t, 3, Len(t)))
         ELSE <<t[1]>> \o ReplaceEscapedUnderscore(Tail(t))

\* The length of the match of  \s*[}\]]  at the head of t, 0 if there is none.
RECURSIVE SpacesThenCloser(_)
SpacesThenCloser(t) ==
    IF t = <<>> THEN 0
    ELSE IF t[1] \in {"}", "]"} THEN 1
    ELSE IF t[1] \in RegexWhitespace
         THEN LET n == SpacesThenCloser(Tail(t)) IN IF n = 0 THEN 0 ELSE n + 1
         ELSE 0

\* re.sub(r',(\s*[}\]])', r'\1', t): each match, left to right and without
\* overlap, loses its comma; the scan goes on after the closing character.
RECURSIVE StripTrailingCommas(_)
StripTrailingCommas(t) ==
    IF t = <<>> THEN <<>>
    ELSE LET n == IF t[1] = "," THEN SpacesThenCloser(Tail(t)) ELSE 0
         IN  IF n > 0
             THEN SubSeq(t, 2, n + 1) \o StripTrailingCommas(SubSeq(t, n + 2, Len(t)))
             ELSE <<t[1]>> \o StripTrailingCommas(Tail(t))

\* json.loads.  A scanner returns whether it succeeded, the value and the
\* index after it.  A value is [t, v]: a string with its characters, an
\* integer with its digits, a float with its digits and exponent, false, a
\* list with its elements, a dict as a function from its keys.
Fail == [ok |-> FALSE, val |-> <<>>, next |-> 0]
Scanned(type, v, next) == [ok |-> TRUE, val |-> [t |-> type, v |-> v], next |-> next]
At(t, i) == IF i <= Len(t) THEN t[i] ELSE ""

RECURSIVE SkipWhitespace(_, _)
SkipWhitespace(t, i) ==
    IF i <= Len(t) /\ t[i] \in JsonWhitespace THEN SkipWhitespace(t, i + 1) ELSE i

\* The character an escape stands for; any other escape is invalid.
Unescape(c) ==
    CASE c = "\"" -> "\""
      [] c = "\\" -> "\\"
      [] c = "/" -> "/"
      [] c = "f" -> "\f"
      [] c = "n" -> "\n"
      [] c = "r" -> "\r"
      [] c = "t" -> "\t"
      [] OTHER -> ""

\* scanstring, from the character after the opening quote.
RECURSIVE ScanString(_, _, _)
ScanString(t, i, acc) ==
    IF i > Len(t) THEN Fail
    ELSE IF t[i] = "\"" THEN Scanned("str", acc, i + 1)
    ELSE IF t[i] = "\\"
         THEN IF Unescape(At(t, i + 1)) = "" THEN Fail
              ELSE ScanString(t, i + 2, Append(acc, Unescape(t[i + 1])))
    ELSE IF t[i] \in {"\t", "\n", "\r", "\f"} THEN Fail
    ELSE ScanString(t, i + 1, Append(acc, t[i]))

RECURSIVE DigitRun(_, _)
DigitRun(t, i) == IF i <= Len(t) /\ t[i] \in Digits THEN DigitRun(t, i + 1) ELSE i

\* The number that starts with the digit at i.
ScanNumber(t, i) ==
    LET j == DigitRun(t, i)
        k == IF At(t, j) = "e" THEN DigitRun(t, j + 1) ELSE j
    IN  IF k > j + 1
        THEN Scanned("float", <<SubSeq(t, i, j - 1), SubSeq(t, j + 1, k - 1)>>, k)
        ELSE Scanned("int", SubSeq(t, i, j - 1), j)

RECURSIVE ScanValue(_, _)
RECURSIVE ScanMembers(_, _, _)
RECURSIVE ScanElements(_, _, _)

\* JSONObject after the first key's opening quote is expected at i.
ScanMembers(t, i, acc) ==
    IF At(t, i) # "\"" THEN Fail
    ELSE LET key == ScanString(t, i + 1, <<>>)
         IN  IF ~key.ok THEN Fail
             ELSE LET c == SkipWhitespace(t, key.next)
                  IN  IF At(t, c) # ":" THEN Fail
                      ELSE LET val == ScanValue(t, SkipWhitespace(t, c + 1))
                           IN  IF ~val.ok THEN Fail
                               ELSE LET d == SkipWhitespace(t, val.next)
                                        more == Put(acc, key.val.v, val.val)
                                    IN  IF At(t, d) = "}" THEN Scanned("dict", more, d + 1)
                                        ELSE IF At(t, d) = ","
                                        THEN ScanMembers(t, SkipWhitespace(t, d + 1), more)
                                        ELSE Fail

\* JSONArray when the first element is expected at i.
ScanElements(t, i, acc) ==
    LET val == ScanValue(t, i)
    IN  IF ~val.ok THEN Fail
        ELSE LET d == SkipWhitespace(t, val.next)
                 more == Append(acc, val.val)
             IN  IF At(t, d) = "]" THEN Scanned("list", more, d + 1)
                 ELSE IF At(t, d) = ","
                 THEN ScanElements(t, SkipWhitespace(t, d + 1), more)
                 ELSE Fail

\* scan_once.
ScanValue(t, i) ==
    CASE At(t, i) = "\"" -> ScanString(t, i + 1, <<>>)
      [] At(t, i) = "{" ->
            LET j == SkipWhitespace(t, i + 1)
            IN  IF At(t, j) = "}" THEN Scanned("dict", EmptyDict, j + 1)
                ELSE ScanMembers(t, j, EmptyDict)
      [] At(t, i) = "[" ->
            LET j == SkipWhitespace(t, i + 1)
            IN  IF At(t, j) = "]" THEN Scanned("list", <<>>, j + 1)
                ELSE ScanElements(t, j, <<>>)
      [] At(t, i) \in Digits -> ScanNumber(t, i)
      [] At(t, i) = "f" ->
            IF i + 4 <= Len(t) /\ SubSeq(t, i, i + 4) = <<"f", "a", "l", "s", "e">>
            THEN Scanned("bool", <<>>, i + 5)
            ELSE Fail
      [] OTHER -> Fail

\* JSONDecoder.decode: one value between optional whitespace, nothing after.
Loads(t) ==
    LET r == ScanValue(t, SkipWhitespace(t, 1))
    IN  IF r.ok /\ SkipWhitespace(t, r.next) = Len(t) + 1
        THEN [ok |-> TRUE, val |-> r.val]
        ELSE [ok |-> FALSE, val |-> <<>>]

(***************************************************************************)
(* The texts parse_prediction is given                                     *)
(***************************************************************************)
\* Bound of the model: how many backslashes before underscores, and how many
\* commas before closing braces and brackets, a text gains over the valid
\* text it derives from.
MaxDefects == 2

\* {"a_a": false, "s": 7, "l": ["a_a" ]}
PlainText ==
    <<"{", "\"", "a", "_", "a", "\"", ":", " ", "f", "a", "l", "s", "e", ",",
      " ", "\"", "s", "\"", ":", " ", "7", ",", " ", "\"", "l", "\"", ":",
      " ", "[", "\"", "a", "_", "a", "\"", " ", "]", "}">>

\* {"s": "a,}"}
CommaInStringText ==
    <<"{", "\"", "s", "\"", ":", " ", "\"", "a", ",", "}", "\"", "}">>

\* {"s": "\\_"}
BackslashInStringText ==
    <<"{", "\"", "s", "\"", ":", " ", "\"", "\\", "\\", "_", "\"", "}">>

\* {"l": [17, {}], "s_s": 1e7 }
NestedText ==
    <<"{", "\"", "l", "\"", ":", " ", "[", "1", "7", ",", " ", "{", "}", "]",
      ",", " ", "\"", "s", "_", "s", "\"", ":", " ", "1", "e", "7", " ", "}">>
BaseTexts == {PlainText, CommaInStringText, BackslashInStringText, NestedText}

\* The indexes of t from i on that lie outside its string literals, the
\* quotes themselves left out.
RECURSIVE Structural(_, _, _)
Structural(t, i, inside) ==
    IF i > Len(t) THEN {}
    ELSE IF inside
         THEN IF t[i] = "\\" THEN Structural(t, i + 2, TRUE)
              ELSE Structural(t, i + 1, t[i] # "\"")
         ELSE (IF t[i] = "\"" THEN {} ELSE {i}) \cup Structural(t, i + 1, t[i] = "\"")

Underscores(t) == {i \in 1..Len(t) : t[i] = "_"}
Closers(t) == {i \in Structural(t, 1, FALSE) : t[i] \in {"}", "]"}}

\* The start of the run of whitespace that ends just before index i.
RECURSIVE RunStart(_, _)
RunStart(t, i) == IF i > 1 /\ t[i - 1] \in JsonWhitespace THEN RunStart(t, i - 1) ELSE i

\* The text t with a backslash before each underscore in E and a comma
\* before each closing character in C: right before it, or before the
\* whitespace that precedes it.
Damage(t, E, C, early) ==
    LET commas == {IF early THEN RunStart(t, i) ELSE i : i \in C}
        RECURSIVE From(_)
        From(i) ==
            IF i > Len(t) THEN <<>>
            ELSE (IF i \in commas THEN <<",">> ELSE <<>>)
                 \o (IF i \in E THEN <<"\\">> ELSE <<>>)
                 \o <<t[i]>> \o From(i + 1)
    IN  From(1)

DamagedTexts(t) ==
    {Damage(t, E, C, early) :
        E \in {X \in SUBSET Underscores(t) : Cardinality(X) <= MaxDefects},
        C \in {X \in SUBSET Closers(t) : Cardinality(X) <= MaxDefects},
        early \in BOOLEAN}

\* Prose around a text.
Wrap(t) == <<"s", "e", "e", " ">> \o t \o <<" ", "a", "l", "l">>

(***************************************************************************)
(* parse_prediction, step by step                                          *)
(***************************************************************************)
\* An evaluation run that has not started.
CompareIdle ==
    /\ missing = {}
    /\ large_data = <<>>
    /\ predictions_data = <<>>
    /\ pc = "idle"
    /\ exc = "none"
    /\ large_map = EmptyDict
    /\ prediction_map = EmptyDict
    /\ parse_errors = 0
    /\ matching_keys = {}
    /\ todo = {}
    /\ total_matches = 0
    /\ correct = [c \in Categories |-> 0]
    /\ incorrect = [c \in Categories |-> <<>>]
    /\ severity_matches = <<>>
    /\ severity_stats = <<>>
    /\ hazard_stats = <<>>
    /\ error_analysis = [c \in Categories |-> [false_negatives |-> 0, false_positives |-> 0]]
    /\ results = <<>>
    /\ output_file = <<>>
    /\ exit_status = <<>>

outside_parser == <<vars, find_vars, gen_vars, annotate_vars>>

ParserInit ==
    /\ CompareIdle
    /\ FindIdle
    /\ GenIdle
    /\ AnnotateIdle
    /\ intended \in BaseTexts
    /\ given \in DamagedTexts(intended) \cup {Wrap(t) : t \in DamagedTexts(intended)}
    /\ prediction_text = given
    /\ parse_pc = "replace"
    /\ returned = <<>>
    /\ error_printed = FALSE

\* prediction_str = prediction_str.replace('\\_', '_')
ReplaceStep ==
    /\ parse_pc = "replace"
    /\ prediction_text' = ReplaceEscapedUnderscore(prediction_text)
    /\ parse_pc' = "strip"
    /\ UNCHANGED <<intended, given, returned, error_printed>>
    /\ UNCHANGED outside_parser

\* prediction_str = re.sub(r',(\s*[}\]])', r'\1', prediction_str)
StripStep ==
    /\ parse_pc = "strip"
    /\ prediction_text' = StripTrailingCommas(prediction_text)
    /\ parse_pc' = "loads"
    /\ UNCHANGED <<intended, given, returned, error_printed>>
    /\ UNCHANGED outside_parser

\* return json.loads(prediction_str)
LoadsStep ==
    /\ parse_pc = "loads"
    /\ Loads(prediction_text).ok
    /\ returned' = <<Loads(prediction_text).val>>
    /\ parse_pc' = "returned"
    /\ UNCHANGED <<intended, given, prediction_text, error_printed>>
    /\ UNCHANGED outside_parser

\* except json.JSONDecodeError: two lines are printed and None is returned.
DecodeErrorStep ==
    /\ parse_pc = "loads"
    /\ ~Loads(prediction_text).ok
    /\ error_printed' = TRUE
    /\ returned' = <<>>
    /\ parse_pc' = "returned"
    /\ UNCHANGED <<intended, given, prediction_text>>
    /\ UNCHANGED outside_parser

ParserNext == ReplaceStep \/ StripStep \/ LoadsStep \/ DecodeErrorStep

ParserSpec == ParserInit /\ [][ParserNext]_parser_vars

(***************************************************************************)
(* find_missing_images.py: find_missing_entries                            *)
(***************************************************************************)
\* A string that names a file is the sequence of its segments between
\* slashes, and a segment the sequence of its parts between dots:
\* "images/x.png" is <<<<"images">>, <<"x", "png">>>>, "x." is <<<<"x", "">>>>
\* and the empty string is <<<<"">>>>.  None is the empty sequence.
EmptyString == <<<<"">>>>
None == <<>>

\* Bound of the model: the number of entries of the JSON file.
MaxEntries == 2

\* Entries as gen-prompts.py writes them, and entries that lack the image,
\* have an empty one or a null one.
Entries ==
    { [id |-> <<<<"x">>>>, image |-> <<<<"images">>, <<"x", "png">>>>],
      [id |-> <<<<"y">>>>, image |-> <<<<"y", "jpg">>>>],
      [id |-> <<<<"y">>>>],
      [id |-> <<<<"w">>>>, image |-> <<<<"images">>, <<"w", "png">>>>],
      [id |-> <<<<"z">>>>, image |-> EmptyString],
      [id |-> <<<<"z">>>>, image |-> None] }

\* What the folder may hold: image files, a file that is no image, and a
\* directory with the name of an image.
FolderItems ==
    { [name |-> <<"x", "png">>, is_file |-> TRUE],
      [name |-> <<"y", "PNG">>, is_file |-> TRUE],
      [name |-> <<"w", "txt">>, is_file |-> TRUE],
      [name |-> <<"w", "png">>, is_file |-> FALSE] }

\* str.lower on the parts the folder items use.
Lower(x) == IF x = "PNG" THEN "png" ELSE x

\* os.path.basename: what follows the last slash.
basename(path) == Last(path)

\* os.path.splitext(name)[0]: the name up to its last dot, the whole name
\* when it has no dot or only leading dots before the last one.
splitext_root(name) ==
    IF Len(name) = 1 \/ \A i \in 1..(Len(name) - 1) : name[i] = ""
    THEN name
    ELSE SubSeq(name, 1, Len(name) - 1)

\* Path.suffix without its dot and Path.stem: the last dot splits the name
\* unless it is the first or the last character.
HasSuffix(name) ==
    /\ Len(name) > 1
    /\ Last(name) # ""
    /\ ~(Len(name) = 2 /\ name[1] = "")
PathSuffix(name) == IF HasSuffix(name) THEN Last(name) ELSE ""
PathStem(name) == IF HasSuffix(name) THEN SubSeq(name, 1, Len(name) - 1) ELSE name

image_extensions == {"png", "jpg", "jpeg", "gif", "webp", "bmp"}

extract_image_names_from_folder(folder) ==
    {PathStem(f.name) :
        f \in {g \in folder : g.is_file /\ Lower(PathSuffix(g.name)) \in image_extensions}}

\* entry.get('image', entry.get('id', ''))
ImagePathOf(entry) ==
    IF "image" \in DOMAIN entry THEN entry.image
    ELSE IF "id" \in DOMAIN entry THEN entry.id
    ELSE EmptyString

\* if image_path:
NonEmpty(image_path) == image_path # None /\ image_path # EmptyString

extract_image_names_from_json_entries(list) ==
    {splitext_root(basename(ImagePathOf(list[i]))) :
        i \in {j \in 1..Len(list) : NonEmpty(ImagePathOf(list[j]))}}

\* The loop that filters the entries: os.path.basename raises TypeError on
\* None.
RECURSIVE FilterEntries(_, _, _)
FilterEntries(rest, names, acc) ==
    IF rest = <<>> THEN [raised |-> "none", list |-> acc]
    ELSE LET image_path == ImagePathOf(Head(rest))
         IN  IF image_path = None THEN [raised |-> "TypeError", list |-> acc]
             ELSE IF splitext_root(basename(image_path)) \in names
             THEN FilterEntries(Tail(rest), names, Append(acc, Head(rest)))
             ELSE FilterEntries(Tail(rest), names, acc)

outside_find == <<vars, parser_vars, gen_vars, annotate_vars>>

FindInit ==
    /\ CompareIdle
    /\ ParserIdle
    /\ GenIdle
    /\ AnnotateIdle
    /\ json_file \in SeqsUpTo(Entries, MaxEntries)
    /\ images_folder \in SUBSET FolderItems
    /\ find_pc = "read"
    /\ all_entries = <<>>
    /\ folder_image_names = {}
    /\ json_image_names = {}
    /\ missing_image_names = {}
    /\ missing_entries = <<>>
    /\ find_exc = "none"

\* all_entries = read_json_entries(json_file)
ReadEntries ==
    /\ find_pc = "read"
    /\ all_entries' = json_file
    /\ find_pc' = "folder"
    /\ UNCHANGED <<json_file, images_folder, folder_image_names, json_image_names,
                   missing_image_names, missing_entries, find_exc>>
    /\ UNCHANGED outside_find

ScanFolder ==
    /\ find_pc = "folder"
    /\ folder_image_names' = extract_image_names_from_folder(images_folder)
    /\ find_pc' = "entries"
    /\ UNCHANGED <<json_file, images_folder, all_entries, json_image_names,
                   missing_image_names, missing_entries, find_exc>>
    /\ UNCHANGED outside_find

ScanEntries ==
    /\ find_pc = "entries"
    /\ json_image_names' = extract_image_names_from_json_entries(all_entries)
    /\ find_pc' = "subtract"
    /\ UNCHANGED <<json_file, images_folder, all_entries, folder_image_names,
                   missing_image_names, missing_entries, find_exc>>
    /\ UNCHANGED outside_find

\* missing_image_names = json_image_names - folder_image_names
SubtractNames ==
    /\ find_pc = "subtract"
    /\ missing_image_names' = json_image_names \ folder_image_names
    /\ find_pc' = "filter"
    /\ UNCHANGED <<json_file, images_folder, all_entries, folder_image_names,
                   json_image_names, missing_entries, find_exc>>
    /\ UNCHANGED outside_find

\* The filtering loop and the return.
FilterMissing ==
    /\ find_pc = "filter"
    /\ LET r == FilterEntries(all_entries, missing_image_names, <<>>)
       IN  /\ missing_entries' = r.list
           /\ find_exc' = r.raised
           /\ find_pc' = IF r.raised = "none" THEN "returned" ELSE "raised"
    /\ UNCHANGED <<json_file, images_folder, all_entries, folder_image_names,
                   json_image_names, missing_image_names>>
    /\ UNCHANGED outside_find

FindNext ==
    \/ ReadEntries
    \/ ScanFolder
    \/ ScanEntries
    \/ SubtractNames
    \/ FilterMissing

FindSpec == FindInit /\ [][FindNext]_find_vars

(***************************************************************************)
(* gen-gemini-images.py: the loop over the entries and its retry loop      *)
(***************************************************************************)
\* --max-retries, at its default.
MAX_RETRIES == 3

\* retry_count < max_retries: the loop condition and the test after a
\* failed attempt.
BelowLimitOffByOne(count) == count <= MAX_RETRIES
BelowLimit(count) == count < MAX_RETRIES

\* The extensions a browser gives a downloaded image.
DownloadExts == {"png", "jpg"}

\* The entries after random.shuffle: any order, no id twice.
ShuffledEntries ==
    {q \in SeqsUpTo(EntryIds, MaxPrompts) :
        q # <<>> /\ \A a, b \in 1..Len(q) : a # b => q[a] # q[b]}

\* A file of the images directory: its name (stem and extension) and the id
\* of the entry whose prompt the image was generated from.
File(stem, ext, from) == [stem |-> stem, ext |-> ext, from |-> from]

\* os.rename(old_path, new_path) of the file at position k: it takes the new
\* name where it is (its modification time stays), and a file that had that
\* name is replaced.
Rename(dir, k, stem) ==
    LET renamed == [dir EXCEPT ![k].stem = stem]
        keep == {j \in 1..Len(dir) :
                    j = k \/ ~(dir[j].stem = stem /\ dir[j].ext = dir[k].ext)}
        RECURSIVE Kept(_)
        Kept(j) ==
            IF j > Len(dir) THEN <<>>
            ELSE (IF j \in keep THEN <<renamed[j]>> ELSE <<>>) \o Kept(j + 1)
    IN  Kept(1)

\* Lines 197-211: the most recently modified image file of the directory is
\* renamed to the entry's id, its extension kept.
RenameLatest(dir, id) == Rename(dir, Len(dir), id)

CurrentId == entries[entry_index]

outside_gen == <<vars, parser_vars, find_vars, annotate_vars>>

GenInit ==
    /\ CompareIdle
    /\ ParserIdle
    /\ FindIdle
    /\ AnnotateIdle
    /\ entries \in ShuffledEntries
    /\ entry_index = 1
    /\ retry_count = 0
    /\ images_dir = <<>>
    /\ failed_log = <<>>
    /\ attempts = [id \in EntryIds |-> 0]
    /\ saved = {}
    /\ gen_pc = "loop"

\* The loop body may be entered: an entry is left and the while condition
\* holds.
InLoop ==
    /\ gen_pc = "loop"
    /\ entry_index <= Len(entries)
    /\ BelowLimit(retry_count)

Attempted == attempts' = [attempts EXCEPT ![CurrentId] = @ + 1]

\* The for loop moves to the next entry, with retry_count = 0.
NextEntry == entry_index' = entry_index + 1 /\ retry_count' = 0

\* An exception leaves the for loop: the outer handler prints it and the
\* finally clause ends the run.
Abort(count) == gen_pc' = "finished" /\ retry_count' = count /\ UNCHANGED entry_index

\* The handler of the inner try (lines 230-243), entered with retry_count =
\* count: the count goes up by one; below the limit the page is refreshed,
\* at the limit the entry is logged and the page refreshed.  driver.get may
\* raise, and then the exception leaves the for loop.
HandleAttemptError(count, log) ==
    \E refreshed \in BOOLEAN :
        IF BelowLimit(count + 1)
        THEN /\ failed_log' = log
             /\ IF refreshed
                THEN retry_count' = count + 1 /\ UNCHANGED <<entry_index, gen_pc>>
                ELSE Abort(count + 1)
        ELSE /\ failed_log' = Append(log, CurrentId)
             /\ IF refreshed
                THEN NextEntry /\ UNCHANGED gen_pc
                ELSE Abort(count + 1)

\* Lines 220-228, after an attempt that did not save a file: the count goes
\* up by one; below the limit the page is refreshed, and driver.get raising
\* there is caught by the inner handler; at the limit the entry is logged.
AfterFailedAttempt ==
    IF BelowLimit(retry_count + 1)
    THEN \/ /\ retry_count' = retry_count + 1
            /\ UNCHANGED <<entry_index, gen_pc, failed_log>>
         \/ HandleAttemptError(retry_count + 1, failed_log)
    ELSE /\ failed_log' = Append(failed_log, CurrentId)
         /\ NextEntry
         /\ UNCHANGED gen_pc

\* The download button is clicked and the browser's file is in the
\* directory when it is listed: it is the latest file, it is renamed and
\* the loop is left.
DownloadArrives ==
    /\ InLoop
    /\ Attempted
    /\ \E ext \in DownloadExts :
          images_dir' = RenameLatest(Append(images_dir, File("download", ext, CurrentId)),
                                     CurrentId)
    /\ saved' = saved \cup {CurrentId}
    /\ NextEntry
    /\ UNCHANGED <<entries, failed_log, gen_pc>>
    /\ UNCHANGED outside_gen

\* The download button is clicked and no file has arrived when the
\* directory is listed, after DOWNLOAD_WAIT_TIME.  If the directory holds an
\* image file, the latest one is renamed and the loop is left; if it holds
\* none, the attempt has failed.
DownloadMissing ==
    /\ InLoop
    /\ Attempted
    /\ IF images_dir # <<>>
       THEN /\ images_dir' = RenameLatest(images_dir, CurrentId)
            /\ saved' = saved \cup {CurrentId}
            /\ NextEntry
            /\ UNCHANGED <<failed_log, gen_pc>>
       ELSE /\ AfterFailedAttempt
            /\ UNCHANGED <<images_dir, saved>>
    /\ UNCHANGED entries
    /\ UNCHANGED outside_gen

\* No download button is found.
NoDownloadButton ==
    /\ InLoop
    /\ Attempted
    /\ AfterFailedAttempt
    /\ UNCHANGED <<entries, images_dir, saved>>
    /\ UNCHANGED outside_gen

\* A step of the attempt raises (no input box, no image within
\* GENERATION_WAIT_TIME, ...).
AttemptRaises ==
    /\ InLoop
    /\ Attempted
    /\ HandleAttemptError(retry_count, failed_log)
    /\ UNCHANGED <<entries, images_dir, saved>>
    /\ UNCHANGED outside_gen

\* The for loop is over: the finally clause.
FinishRun ==
    /\ gen_pc = "loop"
    /\ entry_index > Len(entries)
    /\ gen_pc' = "finished"
    /\ UNCHANGED <<entries, entry_index, retry_count, images_dir, failed_log,
                   attempts, saved>>
    /\ UNCHANGED outside_gen

GenNext ==
    \/ DownloadArrives
    \/ DownloadMissing
    \/ NoDownloadButton
    \/ AttemptRaises
    \/ FinishRun

GenSpec == GenInit /\ [][GenNext]_gen_vars

(***************************************************************************)
(* annotate_images.py: the annotation loop, interrupted and started again  *)
(***************************************************************************)
\* Bounds of the model: the number of records of the file and the number of
\* times the annotator is started again.
MaxRecords == 2
MaxRestarts == 1

\* Records of large.json as gen-prompts.py writes them, a record that is
\* annotated already and a record that has a severity and no hazards.
AnnotatorRecords ==
    { [id |-> "x", label |-> "awake/crying", prompt |-> "p"],
      [id |-> "y", label |-> "asleep", prompt |-> "p"],
      [id |-> "z", label |-> "not-present", prompt |-> "p",
       severity |-> 3, hazards |-> <<"cord">>],
      [id |-> "w", label |-> "asleep", prompt |-> "p", severity |-> 3] }

\* 'severity' in item and 'hazards' in item
PartlyAnnotated(item) == "severity" \in DOMAIN item \/ "hazards" \in DOMAIN item
FullyAnnotated(item) == "severity" \in DOMAIN item /\ "hazards" \in DOMAIN item

\* word in label, for the labels of the records.
Contains(label, word) ==
    \/ label = word
    \/ label = "awake/crying" /\ word = "crying"

derive_fields(item) ==
    LET label == item.label
    IN  IF Contains(label, "not-present") \/ Contains(label, "empty")
        THEN [baby_present |-> FALSE, sleeping |-> FALSE, crying |-> FALSE]
        ELSE IF Contains(label, "asleep")
        THEN [baby_present |-> TRUE, sleeping |-> TRUE, crying |-> FALSE]
        ELSE IF Contains(label, "crying")
        THEN [baby_present |-> TRUE, sleeping |-> FALSE, crying |-> TRUE]
        ELSE [baby_present |-> TRUE, sleeping |-> FALSE, crying |-> FALSE]

\* The prompts of one record, in their order.
Prompts == <<"face_down", "severity", "hazards", "notify", "scratchpad">>
PromptIndex(name) == CHOOSE n \in 1..Len(Prompts) : Prompts[n] = name
AtPrompt == \E n \in 1..Len(Prompts) : ann_pc = Prompts[n]

\* What get_input may return at a prompt.
Answers(name) ==
    CASE name = "face_down" -> BOOLEAN
      [] name = "severity" -> {0, 7}
      [] name = "hazards" -> {<<>>, <<"cord">>}
      [] name = "notify" -> BOOLEAN
      [] name = "scratchpad" -> {""}

\* Lines 120-130: the item with the derived fields and the answers.
Annotated(item, inputs) ==
    LET derived == derive_fields(item)
        keys == (DOMAIN item) \cup (DOMAIN derived) \cup (DOMAIN inputs) \cup {"description"}
    IN  [k \in keys |->
            IF k \in DOMAIN inputs THEN inputs[k]
            ELSE IF k \in DOMAIN derived THEN derived[k]
            ELSE IF k \in DOMAIN item THEN item[k]
            ELSE item.prompt]

outside_annotate == <<vars, parser_vars, find_vars, gen_vars>>

AnnotateInit ==
    /\ CompareIdle
    /\ ParserIdle
    /\ FindIdle
    /\ GenIdle
    /\ large_json \in SeqsUpTo(AnnotatorRecords, MaxRecords)
    /\ loaded_data = <<>>
    /\ ann_index = 1
    /\ ann_pc = "load"
    /\ answers = EmptyDict
    /\ restarts = 0
    /\ completed = EmptyDict

\* data = load_data()
LoadData ==
    /\ ann_pc = "load"
    /\ loaded_data' = large_json
    /\ ann_index' = 1
    /\ ann_pc' = "scan"
    /\ UNCHANGED <<large_json, answers, restarts, completed>>
    /\ UNCHANGED outside_annotate

\* if 'severity' in item and 'hazards' in item: continue
SkipRecord ==
    /\ ann_pc = "scan"
    /\ ann_index <= Len(loaded_data)
    /\ FullyAnnotated(loaded_data[ann_index])
    /\ ann_index' = ann_index + 1
    /\ UNCHANGED <<large_json, loaded_data, ann_pc, answers, restarts, completed>>
    /\ UNCHANGED outside_annotate

\* The record is shown and its first prompt comes up.
ShowRecord ==
    /\ ann_pc = "scan"
    /\ ann_index <= Len(loaded_data)
    /\ ~FullyAnnotated(loaded_data[ann_index])
    /\ ann_pc' = Prompts[1]
    /\ answers' = EmptyDict
    /\ UNCHANGED <<large_json, loaded_data, ann_index, restarts, completed>>
    /\ UNCHANGED outside_annotate

\* get_input returns at the current prompt; after the last prompt the item
\* is updated.
Answer ==
    /\ AtPrompt
    /\ \E a \in Answers(ann_pc) : answers' = Put(answers, ann_pc, a)
    /\ ann_pc' = IF PromptIndex(ann_pc) < Len(Prompts)
                 THEN Prompts[PromptIndex(ann_pc) + 1]
                 ELSE "update"
    /\ UNCHANGED <<large_json, loaded_data, ann_index, restarts, completed>>
    /\ UNCHANGED outside_annotate

\* item[...] = ... : the record in memory gets its annotation.
UpdateItem ==
    /\ ann_pc = "update"
    /\ loaded_data' =
           [loaded_data EXCEPT ![ann_index] = Annotated(loaded_data[ann_index], answers)]
    /\ completed' = Put(completed, ann_index, loaded_data'[ann_index])
    /\ ann_pc' = "save"
    /\ UNCHANGED <<large_json, ann_index, answers, restarts>>
    /\ UNCHANGED outside_annotate

\* save_data(data), and the loop goes on with the next record.
SaveData ==
    /\ ann_pc = "save"
    /\ large_json' = loaded_data
    /\ ann_index' = ann_index + 1
    /\ ann_pc' = "scan"
    /\ UNCHANGED <<loaded_data, answers, restarts, completed>>
    /\ UNCHANGED outside_annotate

\* KeyboardInterrupt at a prompt: "Exiting..." and sys.exit(0).
Interrupt ==
    /\ AtPrompt
    /\ ann_pc' = "exited"
    /\ UNCHANGED <<large_json, loaded_data, ann_index, answers, restarts, completed>>
    /\ UNCHANGED outside_annotate

\* The loop is over: "All images annotated!"
AllAnnotated ==
    /\ ann_pc = "scan"
    /\ ann_index > Len(loaded_data)
    /\ ann_pc' = "done"
    /\ UNCHANGED <<large_json, loaded_data, ann_index, answers, restarts, completed>>
    /\ UNCHANGED outside_annotate

\* The annotator is started again on the file as it is.
Restart ==
    /\ ann_pc \in {"exited", "done"}
    /\ restarts < MaxRestarts
    /\ restarts' = restarts + 1
    /\ ann_pc' = "load"
    /\ loaded_data' = <<>>
    /\ ann_index' = 1
    /\ answers' = EmptyDict
    /\ UNCHANGED <<large_json, completed>>
    /\ UNCHANGED outside_annotate

AnnotateNext ==
    \/ LoadData
    \/ SkipRecord
    \/ ShowRecord
    \/ Answer
    \/ UpdateItem
    \/ SaveData
    \/ Interrupt
    \/ AllAnnotated
    \/ Restart

AnnotateSpec == AnnotateInit /\ [][AnnotateNext]_annotate_vars

(***************************************************************************)
(* What the inputs say, independently of the run                           *)
(***************************************************************************)
GTIdx == 1..Len(large_data)
PredIdx == 1..Len(predictions_data)
Payload(j) == predictions_data[j].prediction
Filename(j) == predictions_data[j].filename

\* The payload denotes a record: a structured record, or a text that decodes.
DenotesRecord(p) == p.kind = "record" \/ (p.kind = "text" /\ p.decodes)
\* The payload cannot be parsed.
Unparseable(p) == ~DenotesRecord(p)
\* The payload is a text that decodes to a record with at least one key.
DecodesNonEmpty(p) == p.kind = "text" /\ p.decodes /\ DOMAIN p.value # {}

GTKeys == {PathName(large_data[i].image) : i \in GTIdx}
ParsedFilenames == {Filename(j) : j \in {x \in PredIdx : DenotesRecord(Payload(x))}}

\* The last ground-truth record with a key, and the last prediction with a
\* filename among those that satisfy a test.
LastGT(k) ==
    large_data[CHOOSE i \in GTIdx :
        /\ PathName(large_data[i].image) = k
        /\ \A i2 \in GTIdx : PathName(large_data[i2].image) = k => i2 <= i]
LastPredIdx(f, Test(_)) ==
    CHOOSE j \in PredIdx :
        /\ Filename(j) = f /\ Test(Payload(j))
        /\ \A j2 \in PredIdx : (Filename(j2) = f /\ Test(Payload(j2))) => j2 <= j
AnyPayload(p) == TRUE

Finished == pc = "done"
\* Both maps are built: both files were loaded and neither loop raised (the
\* only exception of the two loops is AttributeError).
MapsBuilt ==
    /\ pc \notin {"index_large", "parse_predictions"}
    /\ exc \notin {"FileNotFoundError", "AttributeError"}
\* matching_keys is computed.
MatchDone == MapsBuilt /\ pc # "match"

(***************************************************************************)
(* The claims                                                              *)
(***************************************************************************)

\* C1: when a prediction's payload cannot be parsed, that record alone is
\* left out and the run continues: if some other prediction parses and
\* matches a ground-truth record, the finished run has returned a report,
\* and the report covers exactly the ground-truth keys that have a parsed
\* prediction.
C1_ParseFailureIsolated ==
    (/\ Finished
     /\ \E j \in PredIdx :
           /\ Unparseable(Payload(j))
           /\ \E j2 \in PredIdx \ {j} :
                 DenotesRecord(Payload(j2)) /\ Filename(j2) \in GTKeys)
    => /\ results # <<>>
       /\ matching_keys = GTKeys \cap ParsedFilenames
       /\ results[1].total_matches = Cardinality(GTKeys \cap ParsedFilenames)

\* C2: the report carries a parse-failure count, one per prediction whose
\* payload could not be parsed, beside the ground-truth, prediction and
\* matched totals.
C2_ParseFailuresCounted ==
    (Finished /\ results # <<>> /\ \E j \in PredIdx : Unparseable(Payload(j)))
    => /\ {"parse_failures", "total_ground_truth", "total_predictions"}
              \subseteq DOMAIN results[1]
       /\ results[1]["parse_failures"]
              = Cardinality({j \in PredIdx : Unparseable(Payload(j))})
       /\ results[1]["total_ground_truth"] = Cardinality(GTKeys)
       /\ results[1]["total_predictions"] = Cardinality(ParsedFilenames)

\* C3: a ground-truth record and a prediction are matched whenever the final
\* components of the image path and of the prediction filename are equal,
\* whatever directories precede them on either side.
C3_BasenameOnBothSides ==
    MatchDone =>
        \A i \in GTIdx, j \in PredIdx :
            (/\ Last(large_data[i].image) = Last(Filename(j))
             /\ DecodesNonEmpty(Payload(j)))
            => PathName(large_data[i].image) \in matching_keys

\* C4: the matched set is the intersection of the ground-truth keys and the
\* keys of all predictions that parsed, a payload that parses to an empty
\* record included; the matched count is its size and the prediction count
\* (line 73 prints len(prediction_map)) is the number of parsed keys.
C4_MatchedIsIntersection ==
    MatchDone =>
        /\ matching_keys = GTKeys \cap ParsedFilenames
        /\ total_matches = Cardinality(GTKeys \cap ParsedFilenames)
        /\ Cardinality(DOMAIN prediction_map) = Cardinality(ParsedFilenames)

\* C5, as claimed: for a key that several records share, each lookup keeps
\* the record that comes last in the input, so that a matched pair is the
\* last ground-truth record and the last prediction with that key.
C5_LastOccurrenceWins ==
    MatchDone =>
        \A k \in matching_keys :
            /\ large_map[k] = LastGT(k)
            /\ DenotesRecord(Payload(LastPredIdx(k, AnyPayload)))
            /\ prediction_map[k] = Payload(LastPredIdx(k, AnyPayload)).value

\* C5, amended: large_map keeps the last ground-truth record of each key;
\* prediction_map keeps, for each filename, the last prediction among those
\* whose payload decodes to a non-empty value.  A prediction that fails to
\* parse or parses to an empty record is skipped and leaves an earlier entry
\* in place.
C5_LastAcceptedWins ==
    MapsBuilt =>
        /\ DOMAIN large_map = GTKeys
        /\ \A k \in GTKeys : large_map[k] = LastGT(k)
        /\ DOMAIN prediction_map
               = {Filename(j) : j \in {x \in PredIdx : DecodesNonEmpty(Payload(x))}}
        /\ \A f \in DOMAIN prediction_map :
               prediction_map[f] = Payload(LastPredIdx(f, DecodesNonEmpty)).value

\* C5 witness: a matched key that two ground-truth records and two
\* predictions share, the later prediction being one that does not parse.
C5_Witness ==
    /\ MatchDone
    /\ \E k \in matching_keys :
          /\ \E i1, i2 \in GTIdx :
                /\ i1 < i2
                /\ PathName(large_data[i1].image) = k
                /\ PathName(large_data[i2].image) = k
                /\ large_data[i1] # large_data[i2]
          /\ \E j1, j2 \in PredIdx :
                /\ j1 < j2
                /\ Filename(j1) = k /\ Filename(j2) = k
                /\ Unparseable(Payload(j2))

\* C6: a matched record whose prediction lacks a category's attribute is
\* evaluated as if the prediction were false: a false negative when the
\* ground truth is true, correct when it is false; and the run completes.
LacksCategory(k, c) == c \notin DOMAIN prediction_map[k]
ReportedWrong(k, c, e) ==
    \E n \in 1..Len(results[1].incorrect_predictions[c]) :
        /\ results[1].incorrect_predictions[c][n].id = large_map[k].id
        /\ results[1].incorrect_predictions[c][n].expected = e

C6_MissingCategoryIsFalse ==
    (Finished /\ MatchDone /\ \E k \in matching_keys, c \in Categories : LacksCategory(k, c))
    => /\ results # <<>>
       /\ \A k \in matching_keys, c \in Categories :
              LacksCategory(k, c) =>
                  IF extract_label_info(large_map[k].label)[c]
                  THEN ReportedWrong(k, c, TRUE)
                  ELSE ~ReportedWrong(k, c, FALSE)

\* C7: in a returned report, for each boolean category the correct records,
\* the false positives and the false negatives add up to the matched
\* records, every disagreeing record is one of the two, and the accuracy
\* lies in [0,1].
C7_TallyConserved ==
    (Finished /\ results # <<>>) =>
        \A c \in Categories :
            /\ results[1].accuracy[c].num
                   + error_analysis[c].false_positives
                   + error_analysis[c].false_negatives = results[1].total_matches
            /\ error_analysis[c].false_positives + error_analysis[c].false_negatives
                   = Len(results[1].incorrect_predictions[c])
            /\ results[1].accuracy[c].den > 0
            /\ 0 <= results[1].accuracy[c].num
            /\ results[1].accuracy[c].num <= results[1].accuracy[c].den

\* C8: in a returned report the hazard counts (exact, partial, no match) add
\* up to the number of matched records that have hazards on both sides; the
\* exact matches are the records whose case-folded hazard sets are equal and
\* the non-matches those whose sets are disjoint and not both empty.
HazardsOnBothSides ==
    {k \in matching_keys :
        "hazards" \in DOMAIN large_map[k] /\ "hazards" \in DOMAIN prediction_map[k]}
CaseFold(h) == IF h = "Cord" THEN "cord" ELSE h
HazardSet(v) == {CaseFold(v.l[n]) : n \in 1..Len(v.l)}
GTHazards(k) == HazardSet(large_map[k]["hazards"])
PredHazards(k) == HazardSet(prediction_map[k]["hazards"])

C8_HazardPartition ==
    (Finished /\ results # <<>>) =>
        /\ "hazard_overlap" \in DOMAIN results[1]
        /\ results[1]["hazard_overlap"].exact
               = Cardinality({k \in HazardsOnBothSides : GTHazards(k) = PredHazards(k)})
        /\ results[1]["hazard_overlap"].no_match
               = Cardinality({k \in HazardsOnBothSides :
                                 /\ GTHazards(k) \cap PredHazards(k) = {}
                                 /\ GTHazards(k) \cup PredHazards(k) # {}})
        /\ results[1]["hazard_overlap"].exact
               + results[1]["hazard_overlap"].partial
               + results[1]["hazard_overlap"].no_match
               = Cardinality(HazardsOnBothSides)

\* C9: a matched record whose predicted severity is missing or not a number
\* is left out of the severity statistics only: the run returns its report,
\* the boolean tallies cover every matched record, and the statistics cover
\* the records with a number or a numeric string ("5" counts as 5).
Coercible(d) ==
    /\ "severity" \in DOMAIN d
    /\ \/ d["severity"].t = "num"
       \/ d["severity"].t = "str" /\ d["severity"].s = "5"
Coerced(d) == IF d["severity"].t = "num" THEN d["severity"].n ELSE 5

RECURSIVE CoercedSum(_)
CoercedSum(S) ==
    IF S = {} THEN 0
    ELSE LET k == CHOOSE k \in S : TRUE
         IN  Coerced(prediction_map[k]) + CoercedSum(S \ {k})

C9_SeverityOnlyCoercible ==
    (/\ Finished /\ MatchDone
     /\ \A k \in matching_keys : Categories \subseteq DOMAIN prediction_map[k]
     /\ \E k \in matching_keys :
           "severity" \notin DOMAIN prediction_map[k]
           \/ prediction_map[k]["severity"].t # "num")
    => /\ results # <<>>
       /\ \A c \in Categories :
              results[1].accuracy[c].num + Len(results[1].incorrect_predictions[c])
                  = total_matches
       /\ severity_stats # <<>>
       /\ severity_stats[1].n
              = Cardinality({k \in matching_keys : Coercible(prediction_map[k])})
       /\ severity_stats[1].sum
              = CoercedSum({k \in matching_keys : Coercible(prediction_map[k])})

\* C10: parse_prediction returns a structured record unchanged, and the
\* record takes part in matching (its filename is a key of prediction_map).
C10_StructuredPassesThrough ==
    (pc \notin {"index_large", "parse_predictions"}) =>
        \A j \in PredIdx :
            Payload(j).kind = "record" =>
                /\ parse_prediction(Payload(j)).raised = "none"
                /\ parse_prediction(Payload(j)).result = <<Payload(j).value>>
                /\ Filename(j) \in DOMAIN prediction_map

\* C13: the command ends with a non-zero status when an input path does not
\* resolve, and with status zero otherwise, runs in which predictions failed
\* to parse included.
C13_ExitStatus ==
    Finished =>
        IF missing # {} THEN exit_status # <<>> /\ exit_status # <<0>>
        ELSE exit_status = <<0>>

\* C14: the matched keys are processed in sorted order, so that the
\* per-record severity entries of a returned report come in the
\* lexicographic order of their keys whatever the run, and two runs on the
\* same inputs return the same report.
NameOrder == <<"x.png", "y.png">>
Rank(k) == CHOOSE n \in 1..Len(NameOrder) : NameOrder[n] = k[1]

C14_SortedOrder ==
    (Finished /\ results # <<>>) =>
        \A a, b \in 1..Len(results[1].severity_stats) :
            a < b =>
                \E ka, kb \in matching_keys :
                    /\ large_map[ka].id = results[1].severity_stats[a].id
                    /\ large_map[kb].id = results[1].severity_stats[b].id
                    /\ Rank(ka) < Rank(kb)

\* C15: no step of a run changes the content of the ground-truth file or of
\* the predictions file, whether the run succeeds, meets predictions that do
\* not parse or ends in an error; the only file written is the report file,
\* and what is written there is the report just returned.
C15_InputsNeverModified ==
    [][/\ large_data' = large_data
       /\ predictions_data' = predictions_data
       /\ output_file' # output_file => (pc = "save" /\ output_file' = results)]_vars

\* C15 witness: a finished run that printed a parse error and wrote its
\* report.
C15_Witness ==
    /\ Finished
    /\ parse_errors > 0
    /\ results # <<>>
    /\ output_file = results
    /\ large_data # <<>>

\* C20: when no ground-truth key matches a parsed prediction, the run still
\* returns a report with total_matches = 0 and main writes it.
C20_ZeroMatchesReported ==
    (Finished /\ MatchDone /\ total_matches = 0) =>
        /\ results # <<>>
        /\ results[1].total_matches = 0
        /\ output_file = results

\* C11: when the cleaned text does not parse, parse_prediction parses the
\* substring from the first opening brace to the last closing brace instead:
\* prose around one valid JSON object yields that object, and None is
\* returned (and the error printed) only when that substring does not parse
\* either.
FirstBrace(t) == CHOOSE i \in 1..Len(t) : t[i] = "{" /\ \A j \in 1..(i - 1) : t[j] # "{"
LastBrace(t) == CHOOSE i \in 1..Len(t) : t[i] = "}" /\ \A j \in (i + 1)..Len(t) : t[j] # "}"
HasBraces(t) ==
    \E i, j \in 1..Len(t) : i < j /\ t[i] = "{" /\ t[j] = "}"
Outermost(t) == SubSeq(t, FirstBrace(t), LastBrace(t))
Cleaned(t) == StripTrailingCommas(ReplaceEscapedUnderscore(t))

C11_FallbackExtraction ==
    parse_pc = "returned" =>
        IF Loads(Cleaned(given)).ok
        THEN returned = <<Loads(Cleaned(given)).val>>
        ELSE IF HasBraces(Cleaned(given)) /\ Loads(Outermost(Cleaned(given))).ok
        THEN returned = <<Loads(Outermost(Cleaned(given))).val>> /\ ~error_printed
        ELSE returned = <<>>

\* C12: for a text that differs from a valid JSON object text only by
\* backslashes before underscores and by commas before closing braces and
\* brackets, parse_prediction returns the record the valid text denotes; and
\* for a text that is valid JSON it returns the record the text denotes, its
\* string values unaltered.
C12_CleaningOnlyRepairsStructure ==
    parse_pc = "returned" =>
        /\ given \in DamagedTexts(intended) =>
               returned = <<Loads(intended).val>>
        /\ Loads(given).ok => returned = <<Loads(given).val>>

\* C16: find_missing_entries returns the entries that have no image in the
\* folder: an entry is in the returned list if and only if no image file of
\* the folder has the extension-stripped basename of the entry's image (of
\* its id when it has no image), and the returned entries come in their
\* input order, an entry as many times as it occurs.
StrippedName(entry) == splitext_root(basename(ImagePathOf(entry)))
IsImageFile(f) == f.is_file /\ Lower(PathSuffix(f.name)) \in image_extensions
HasNoImage(entry) ==
    ~\E f \in images_folder : IsImageFile(f) /\ PathStem(f.name) = StrippedName(entry)

C16_ExactlyTheMissing ==
    (find_pc = "returned") => missing_entries = SelectSeq(json_file, HasNoImage)

\* C17: --max-retries is the maximum number of attempts per prompt, the
\* first one included.  Whatever the outcomes of the attempts, an entry is
\* attempted at most MAX_RETRIES times and not again once an attempt has
\* succeeded; it is in the failed-prompts log once if MAX_RETRIES attempts
\* were made and none succeeded, never twice, and never if one succeeded.
LogCount(id) == Cardinality({k \in 1..Len(failed_log) : failed_log[k] = id})

C17_RetryLoop ==
    /\ [](\A id \in EntryIds :
             /\ attempts[id] <= MAX_RETRIES
             /\ LogCount(id) <= 1
             /\ id \in saved => LogCount(id) = 0
             /\ (attempts[id] = MAX_RETRIES /\ id \notin saved) => LogCount(id) = 1)
    /\ [][\A id \in saved : attempts'[id] = attempts[id]]_gen_vars

\* C17 witness: a finished run in which one entry failed MAX_RETRIES times
\* and is in the log, and another succeeded at its second attempt.
C17_Witness ==
    /\ gen_pc = "finished"
    /\ \E a, b \in EntryIds :
          /\ attempts[a] = MAX_RETRIES /\ a \notin saved /\ LogCount(a) = 1
          /\ attempts[b] = 2 /\ b \in saved /\ LogCount(b) = 0

\* C18: a successful attempt renames the file downloaded for its entry and
\* no other: every file of the images directory that bears an entry's id is
\* the image generated from that entry's prompt.
C18_SavedImageIsItsOwn ==
    \A k \in 1..Len(images_dir) :
        images_dir[k].stem \in EntryIds => images_dir[k].from = images_dir[k].stem

\* C19: the annotator can be interrupted at any prompt and started again
\* without loss.  A record that has both severity and hazards is never
\* prompted for and never changed, in memory or in the file; whenever the
\* loop is at a prompt or between two records the file holds the collection
\* as it is in memory, so that the file holds every annotation completed so
\* far also after an interruption; and a prompt is always for the first
\* record that lacks severity or hazards.
HasBoth(record) == {"severity", "hazards"} \subseteq DOMAIN record
Lacking(records) == {i \in 1..Len(records) : ~HasBoth(records[i])}

C19_Resumable ==
    /\ [](AtPrompt =>
             /\ ann_index \in Lacking(loaded_data)
             /\ \A j \in Lacking(loaded_data) : ann_index <= j)
    /\ [](ann_pc \in {"scan", "exited", "done", "load"} \/ AtPrompt =>
             /\ ann_pc # "load" => large_json = loaded_data
             /\ \A i \in DOMAIN completed : large_json[i] = completed[i])
    /\ [][/\ \A i \in 1..Len(large_json) :
                HasBoth(large_json[i]) => large_json'[i] = large_json[i]
          /\ \A i \in 1..Len(loaded_data) :
                (HasBoth(loaded_data[i]) /\ ann_pc # "exited" /\ ann_pc # "done")
                    => loaded_data'[i] = loaded_data[i]]_annotate_vars

\* C19 witness: the annotator was interrupted at a prompt of the second
\* record after the first was annotated, was started again, and is at the
\* first prompt of the second record, the first record's annotation in the
\* file.
C19_Witness ==
    /\ restarts = 1
    /\ ann_pc = Prompts[1]
    /\ ann_index = 2
    /\ 1 \in DOMAIN completed
    /\ large_json[1] = completed[1]

====
